---- MODULE Spec2Model ----
(***************************************************************************)
(* Model of app.py (thibaultbnf/analyse-actions): the metric interpreter,  *)
(* the scoring engine, the snapshot normaliser fetch_info and the script   *)
(* body (main, tabs 1-5) as a state machine.                               *)
(*                                                                         *)
(* Numbers.  Every metric value is an integer count of hundredths: 2550    *)
(* stands for 25.50 and 10 for 0.10.  The threshold tables below are the   *)
(* source's tables in that unit.  A Python value is a record whose field k *)
(* is its type: None, a float, an int, a float NaN, a str, or "absent" for *)
(* a key the provider's dict does not hold.                                *)
(*                                                                         *)
(* Text.  A display string is the sequence of its characters.              *)
(***************************************************************************)
EXTENDS Integers, Sequences, FiniteSets, TLC

VARIABLES
    pc,             \* position of the script, or of the call under study
    error,          \* the uncaught exception that ended the script, "" if none
    ticker_input,   \* sidebar: the primary ticker text, as its tokens
    multi_tickers,  \* sidebar: the basket text, as its comma-separated fields
    compare_sector, \* sidebar: "same sector only" checkbox
    trading_mode,   \* sidebar: trading profile
    aggressive,     \* sidebar: aggressive checkbox
    info_raw,       \* the provider's answer to the primary ticker's fetch_info
    info,           \* the primary ticker's snapshot
    score,          \* tab 4: compute_score's first result, in tenths
    verdict,        \* tab 4: compute_score's second result
    tickers_list,   \* tab 5: parsed basket
    pos,            \* tab 5: index of the next ticker of the loop
    data,           \* tab 5: rows collected so far
    df_multi,       \* tab 5: the table after the optional sector filter
    view,           \* tab 5: what is rendered
    val, key, sector, \* arguments of the interpret call under study
    ret             \* its result

vars == <<pc, error, ticker_input, multi_tickers, compare_sector, trading_mode,
          aggressive, info_raw, info, score, verdict, tickers_list, pos, data,
          df_multi, view, val, key, sector, ret>>

sidebar == <<ticker_input, multi_tickers, compare_sector, trading_mode, aggressive>>
tab5 == <<tickers_list, pos, data, df_multi, view>>
call == <<val, key, sector, ret>>

-----------------------------------------------------------------------------
(* Bounds *)

\* Values are drawn within Spread hundredths of every threshold of the tables.
Spread == 1

\* Largest number of comma-separated fields of the basket text.
MaxFields == 3

-----------------------------------------------------------------------------
(* Python values *)

None == [k |-> "None"]
NaN == [k |-> "nan"]
Absent == [k |-> "absent"]
PyFloat(n) == [k |-> "float", n |-> n]
PyInt(n) == [k |-> "int", n |-> n]
PyText(s) == [k |-> "str", s |-> s]

IsNum(v) == v.k \in {"float", "int"}

\* Python truthiness: None, 0, 0.0 and "" are falsy; a float NaN is truthy.
Truthy(v) == (IsNum(v) /\ v.n # 0) \/ v.k = "nan" \/ (v.k = "str" /\ v.s # "")

\* val < t and val > t for a float or an int val and a threshold of t
\* hundredths: every comparison with NaN is False.
PyLt(v, t) == IsNum(v) /\ v.n < t
PyGt(v, t) == IsNum(v) /\ v.n > t

\* The sector None (interpret's default argument, or a snapshot without one).
NoneSector == "None"

Abs(n) == IF n < 0 THEN -n ELSE n

DigitChar(d) ==
    CASE d = 0 -> "0" [] d = 1 -> "1" [] d = 2 -> "2" [] d = 3 -> "3"
      [] d = 4 -> "4" [] d = 5 -> "5" [] d = 6 -> "6" [] d = 7 -> "7"
      [] d = 8 -> "8" [] d = 9 -> "9"

RECURSIVE Digits(_)
Digits(n) ==
    IF n < 10 THEN <<DigitChar(n)>>
    ELSE Append(Digits(n \div 10), DigitChar(n % 10))

Sign(n) == IF n < 0 THEN <<"-">> ELSE <<>>

NaNText == <<"n", "a", "n">>

\* f"{val:.2f}" of a value of n hundredths.
Fixed2(n) ==
    Sign(n) \o Digits(Abs(n) \div 100) \o <<".">>
        \o <<DigitChar((Abs(n) % 100) \div 10), DigitChar(Abs(n) % 10)>>

\* f"{val*100:.1f}%" of a value of n hundredths: val*100 is the integer n.
Pct1(n) == Sign(n) \o Digits(Abs(n)) \o <<".", "0", "%">>

\* str(val): None, NaN, an int, or a float (shortest repr, at least one decimal).
PyStr(v) ==
    IF v.k = "None" THEN <<"N", "o", "n", "e">>
    ELSE IF v.k = "nan" THEN NaNText
    ELSE IF v.k = "int" THEN Sign(v.n) \o Digits(Abs(v.n) \div 100)
    ELSE Sign(v.n) \o Digits(Abs(v.n) \div 100) \o <<".">>
            \o (IF Abs(v.n) % 10 = 0
                THEN <<DigitChar((Abs(v.n) % 100) \div 10)>>
                ELSE <<DigitChar((Abs(v.n) % 100) \div 10), DigitChar(Abs(v.n) % 10)>>)

-----------------------------------------------------------------------------
(* Sector scale tables, in hundredths *)

SECTOR_SCALES ==
    [s \in {"Biotechnology", "Healthcare", "Industrial", "Technology",
            "Financial Services"} |->
        CASE s = "Biotechnology" ->
                [m \in {"PE", "P/S", "Profit Margin"} |->
                    CASE m = "PE" -> <<0, 4000, 8000>>
                      [] m = "P/S" -> <<0, 600, 1200>>
                      [] m = "Profit Margin" -> <<0, 5, 10>>]
          [] s = "Healthcare" ->
                [m \in {"PE", "P/S", "Profit Margin"} |->
                    CASE m = "PE" -> <<0, 2500, 4500>>
                      [] m = "P/S" -> <<0, 400, 800>>
                      [] m = "Profit Margin" -> <<5, 10, 15>>]
          [] s = "Industrial" ->
                [m \in {"PE", "P/S", "Profit Margin"} |->
                    CASE m = "PE" -> <<0, 1500, 2500>>
                      [] m = "P/S" -> <<0, 200, 400>>
                      [] m = "Profit Margin" -> <<5, 10, 15>>]
          [] s = "Technology" ->
                [m \in {"PE", "P/S", "Profit Margin"} |->
                    CASE m = "PE" -> <<0, 3000, 6000>>
                      [] m = "P/S" -> <<0, 500, 1200>>
                      [] m = "Profit Margin" -> <<5, 10, 20>>]
          [] s = "Financial Services" ->
                [m \in {"PE", "P/S", "Profit Margin"} |->
                    CASE m = "PE" -> <<0, 1200, 2000>>
                      [] m = "P/S" -> <<0, 300, 600>>
                      [] m = "Profit Margin" -> <<5, 12, 18>>]]

DEFAULT_SCALES ==
    [m \in {"PE", "P/S", "Profit Margin"} |->
        CASE m = "PE" -> <<0, 2000, 4000>>
          [] m = "P/S" -> <<0, 300, 600>>
          [] m = "Profit Margin" -> <<5, 10, 15>>]

\* SECTOR_SCALES.get(sector, DEFAULT_SCALES)
ScalesFor(s) ==
    IF s \in DOMAIN SECTOR_SCALES THEN SECTOR_SCALES[s] ELSE DEFAULT_SCALES

-----------------------------------------------------------------------------
(* interpret *)

NA == <<"N", "/", "A">>

\* Lines 107-110 with "<=" for "<" at the middle threshold.
ClassifyCostInclusiveMid(v, med, high) ==
    IF PyLt(v, med + 1) THEN "green" ELSE IF PyGt(v, high) THEN "red" ELSE "yellow"

\* The PE and P/S rule: colour of a value (a float, an int or NaN).
ClassifyCost(v, med, high) ==
    IF PyLt(v, med) THEN "green" ELSE IF PyGt(v, high) THEN "red" ELSE "yellow"

CostText(c) ==
    CASE c = "green" -> "Attractif"
      [] c = "red" -> "Élevé / spéculatif"
      [] c = "yellow" -> "Dans la norme"

\* Lines 111-114 with ">=" for ">" at 0.10.
ClassifyMarginInclusive(v) ==
    IF PyGt(v, 9) THEN "green" ELSE IF PyLt(v, 0) THEN "red" ELSE "yellow"

\* The Profit Margin rule: fixed thresholds 0.10 and 0.
ClassifyMargin(v) ==
    IF PyGt(v, 10) THEN "green" ELSE IF PyLt(v, 0) THEN "red" ELSE "yellow"

MarginText(c) ==
    CASE c = "green" -> "Marge solide"
      [] c = "red" -> "Perte / marge négative"
      [] c = "yellow" -> "Marge modeste"

\* interpret for a value that passed the None test of line 99.
interpretPresent(v, m, s) ==
    LET sector_scales == ScalesFor(s)
    IN  IF m \notin {"PE", "P/S", "Profit Margin"}
        THEN <<PyStr(v), "gray", "">>
        ELSE LET med == sector_scales[m][2]
                 high == sector_scales[m][3]
                 val_display ==
                    IF m = "Profit Margin"
                    THEN (IF v.k = "nan" THEN NaNText \o <<"%">> ELSE Pct1(v.n))
                    ELSE (IF v.k = "nan" THEN NaNText ELSE Fixed2(v.n))
             IN  IF m \in {"PE", "P/S"}
                 THEN LET c == ClassifyCost(v, med, high)
                      IN  <<val_display, c, CostText(c)>>
                 ELSE LET c == ClassifyMargin(v)
                      IN  <<val_display, c, MarginText(c)>>

\* interpret with the key dispatch of lines 101-104 placed before the None test.
interpretKeyFirst(v, m, s) ==
    IF m \notin {"PE", "P/S", "Profit Margin"} THEN <<PyStr(v), "gray", "">>
    ELSE IF v = None THEN <<NA, "gray", "Donnée indisponible">>
    ELSE interpretPresent(v, m, s)

interpret(v, m, s) ==
    IF v = None THEN <<NA, "gray", "Donnée indisponible">>
    ELSE interpretPresent(v, m, s)

-----------------------------------------------------------------------------
(* compute_score *)

\* A snapshot as compute_score reads it; the fields it does not read are None.
Snapshot(sec, pe, ps, eps, rg, pm, cr) ==
    [ticker |-> <<>>, longName |-> <<>>, sector |-> sec, price |-> None,
     marketCap |-> None, trailingPE |-> pe, priceToSales |-> ps,
     priceToBook |-> None, profitMargins |-> pm, operatingMargins |-> None,
     revenueGrowth |-> rg, trailingEPS |-> eps, totalCash |-> None,
     totalDebt |-> None, currentRatio |-> cr, bookValue |-> None,
     sharesOutstanding |-> None]

\* Lines 119-124 with the profile of "Long terme / Value" given to every mode
\* that is not the short-term one.
weightValueByDefault(mode) ==
    IF mode = "Court terme / Spéculatif"
    THEN [valuation |-> 2, growth |-> 4, margins |-> 1, balance |-> 1]
    ELSE [valuation |-> 4, growth |-> 2, margins |-> 3, balance |-> 3]

\* The weight profile of a trading mode.
weight(mode) ==
    IF mode = "Long terme / Value"
    THEN [valuation |-> 4, growth |-> 2, margins |-> 3, balance |-> 3]
    ELSE IF mode = "Court terme / Spéculatif"
    THEN [valuation |-> 2, growth |-> 4, margins |-> 1, balance |-> 1]
    ELSE [valuation |-> 3, growth |-> 3, margins |-> 2, balance |-> 2]

\* (1 if color=="green" else 0.6 if color=="yellow" else 0.2), in tenths.
Multiplier(color) ==
    IF color = "green" THEN 10 ELSE IF color = "yellow" THEN 6 ELSE 2

\* The colour of the valuation component (lines 126-129).  "if eps and ... and
\* pe" and "elif ps" test truthiness, so a P/E or a P/S of 0 is skipped and a
\* NaN is not.
ValuationColor(i) ==
    IF Truthy(i.trailingEPS) /\ PyGt(i.trailingEPS, 0) /\ Truthy(i.trailingPE)
    THEN interpret(i.trailingPE, "PE", i.sector)[2]
    ELSE IF Truthy(i.priceToSales)
    THEN interpret(i.priceToSales, "P/S", i.sector)[2]
    ELSE "yellow"

\* Lines 132, 135, 138: interpret is called without a sector.
GrowthColor(i) == interpret(i.revenueGrowth, "Profit Margin", NoneSector)[2]
MarginsColor(i) == interpret(i.profitMargins, "Profit Margin", NoneSector)[2]
BalanceColor(i) == interpret(i.currentRatio, "PE", NoneSector)[2]

\* round(x, 1) of x = num/den >= 0, in tenths: the nearest tenth, the even one
\* on a tie.
round1(num, den) ==
    LET q == (10 * num) \div den
        r == (10 * num) % den
    IN  IF 2 * r < den THEN q
        ELSE IF 2 * r > den THEN q + 1
        ELSE IF q % 2 = 0 THEN q ELSE q + 1

\* The sums of lines 130-142 are sums of doubles.  Over all weight profiles,
\* multipliers and both values of the flag, the double final_score compares
\* with 7, 4.5 and 10 and rounds as the exact value does, except for three
\* accumulations of the "Long terme / Value" profile without the bonus whose
\* exact value is 7 and whose double is 6.999999999999998 (the multipliers
\* below are in tenths, in the order valuation, growth, margins, balance).
DoubleBelowExact(w, mv, mg, mm, mb, aggr) ==
    /\ ~aggr
    /\ w = [valuation |-> 4, growth |-> 2, margins |-> 3, balance |-> 3]
    /\ <<mv, mg, mm, mb>> \in {<<10, 10, 2, 6>>, <<6, 6, 10, 6>>, <<6, 6, 6, 10>>}

\* compute_score: <<score in tenths, verdict>>.  final_score is the fraction
\* num/den with den = 10 * maxscore.
compute_score(i, aggr, mode) ==
    LET w == weight(mode)
        mv == Multiplier(ValuationColor(i))
        mg == Multiplier(GrowthColor(i))
        mm == Multiplier(MarginsColor(i))
        mb == Multiplier(BalanceColor(i))
        score10 == w.valuation * mv + w.growth * mg + w.margins * mm + w.balance * mb
        maxscore == w.valuation + w.growth + w.margins + w.balance
        den == 10 * maxscore
        raw == 10 * score10 + (IF aggr THEN 3 * maxscore ELSE 0)
        num == IF raw > 10 * den THEN 10 * den ELSE IF raw < 0 THEN 0 ELSE raw
        below == DoubleBelowExact(w, mv, mg, mm, mb, aggr)
        v == IF num >= 7 * den /\ ~below THEN <<"BUY", "green", "Acheter">>
             ELSE IF 2 * num >= 9 * den THEN <<"WATCH", "yellow", "Surveiller">>
             ELSE <<"AVOID", "red", "Éviter">>
    IN  <<round1(num, den), v>>

-----------------------------------------------------------------------------
(* Calls of the two pure functions on bounded inputs *)

Around(t) == (t - Spread)..(t + Spread)

Keys == {"PE", "P/S", "Profit Margin", "P/B"}

Sectors == DOMAIN SECTOR_SCALES \cup {"Communication Services", "Unknown", NoneSector}

\* Every threshold of the tables, and the fixed thresholds 0 and 0.10.
Thresholds ==
    {0, 10} \cup
    UNION {{ScalesFor(s)[m][j] : j \in 1..3} : s \in Sectors, m \in {"PE", "P/S", "Profit Margin"}}

Values == {None, NaN} \cup {PyFloat(n) : n \in UNION {Around(t) : t \in Thresholds}}

Idle ==
    /\ error = "" /\ ticker_input = <<>> /\ multi_tickers = <<>>
    /\ compare_sector = FALSE /\ info_raw = <<>> /\ tickers_list = <<>>
    /\ pos = 0 /\ data = <<>> /\ df_multi = <<>> /\ view = ""

InitInterp ==
    /\ pc = "call interpret"
    /\ val \in Values /\ key \in Keys /\ sector \in Sectors
    /\ ret = <<>>
    /\ trading_mode = "" /\ aggressive = FALSE /\ info = <<>>
    /\ score = -1 /\ verdict = <<>>
    /\ Idle

Interpret ==
    /\ pc = "call interpret"
    /\ ret' = interpret(val, key, sector)
    /\ pc' = "interpret returned"
    /\ UNCHANGED <<error, sidebar, info_raw, info, score, verdict, tab5,
                   val, key, sector>>

SpecInterp == InitInterp /\ [][Interpret]_vars

Modes == {"Équilibré", "Long terme / Value", "Court terme / Spéculatif", "Autre"}

ScoreSectors == {"Technology", "Unknown"}
PEValues == {None, NaN, PyFloat(0), PyFloat(1999), PyFloat(2000), PyFloat(6001)}
PSValues == {None, NaN, PyFloat(0), PyFloat(299), PyFloat(500), PyFloat(1201)}
EPSValues == {None, NaN, PyFloat(-100), PyFloat(0), PyFloat(100)}
FractionValues == {None, PyFloat(-1), PyFloat(10), PyFloat(11)}
RatioValues == {None, PyFloat(150), PyFloat(2000), PyFloat(4001)}

InitScore ==
    /\ pc = "call compute_score"
    /\ info \in {Snapshot(sec, pe, ps, eps, rg, pm, cr) :
                    sec \in ScoreSectors, pe \in PEValues, ps \in PSValues,
                    eps \in EPSValues, rg \in FractionValues,
                    pm \in FractionValues, cr \in RatioValues}
    /\ trading_mode \in Modes
    /\ aggressive \in BOOLEAN
    /\ score = -1 /\ verdict = <<>>
    /\ val = None /\ key = "" /\ sector = NoneSector /\ ret = <<>>
    /\ Idle

ComputeScore ==
    /\ pc = "call compute_score"
    /\ score' = compute_score(info, aggressive, trading_mode)[1]
    /\ verdict' = compute_score(info, aggressive, trading_mode)[2]
    /\ pc' = "compute_score returned"
    /\ UNCHANGED <<error, sidebar, info_raw, info, tab5, call>>

SpecScore == InitScore /\ [][ComputeScore]_vars

-----------------------------------------------------------------------------
(* safe and fetch_info *)

\* safe(val): None for None and for a float NaN, the value itself otherwise.
safe(v) == IF v.k = "None" \/ v.k = "nan" THEN None ELSE v

\* The snapshot's metric fields and the provider key each is read from.
FieldKey ==
    [price |-> "currentPrice", marketCap |-> "marketCap",
     trailingPE |-> "trailingPE",
     priceToSales |-> "priceToSalesTrailing12Months",
     priceToBook |-> "priceToBook", profitMargins |-> "profitMargins",
     operatingMargins |-> "operatingMargins", revenueGrowth |-> "revenueGrowth",
     trailingEPS |-> "trailingEps", totalCash |-> "totalCash",
     totalDebt |-> "totalDebt", currentRatio |-> "currentRatio",
     bookValue |-> "bookValue", sharesOutstanding |-> "sharesOutstanding"]

MetricFields == DOMAIN FieldKey

MetricKeys == {FieldKey[f] : f \in MetricFields}

ProviderKeys == MetricKeys \cup {"longName", "sector"}

\* A provider dict gives every key a value, Absent for a key it does not hold.
EmptyDict == [k \in ProviderKeys |-> Absent]

\* info_raw.get(k)
DictGet(d, k) == IF d[k] = Absent THEN None ELSE d[k]

\* The provider's answer for one ticker: whether yf.Ticker(ticker) raises,
\* whether reading t.info raises, and the dict t.info gives when it does not.
Response(ctor, inf, d) == [ctor |-> ctor, info |-> inf, dict |-> d]

\* fetch_info for a ticker whose yf.Ticker(ticker) does not raise (lines 67-87).
\* The history and calendar side-cars only feed the rendering and are left out.
fetch_info(ticker, resp) ==
    LET raw == IF resp.info = "raises" THEN EmptyDict ELSE resp.dict
    IN  [ticker |-> ticker,
         longName |-> IF Truthy(DictGet(raw, "longName"))
                      THEN <<DictGet(raw, "longName").s>> ELSE ticker,
         sector |-> IF Truthy(DictGet(raw, "sector"))
                    THEN DictGet(raw, "sector").s ELSE "Unknown",
         price |-> safe(DictGet(raw, "currentPrice")),
         marketCap |-> safe(DictGet(raw, "marketCap")),
         trailingPE |-> safe(DictGet(raw, "trailingPE")),
         priceToSales |-> safe(DictGet(raw, "priceToSalesTrailing12Months")),
         priceToBook |-> safe(DictGet(raw, "priceToBook")),
         profitMargins |-> safe(DictGet(raw, "profitMargins")),
         operatingMargins |-> safe(DictGet(raw, "operatingMargins")),
         revenueGrowth |-> safe(DictGet(raw, "revenueGrowth")),
         trailingEPS |-> safe(DictGet(raw, "trailingEps")),
         totalCash |-> safe(DictGet(raw, "totalCash")),
         totalDebt |-> safe(DictGet(raw, "totalDebt")),
         currentRatio |-> safe(DictGet(raw, "currentRatio")),
         bookValue |-> safe(DictGet(raw, "bookValue")),
         sharesOutstanding |-> safe(DictGet(raw, "sharesOutstanding"))]

RawValues ==
    {Absent, None, NaN, PyFloat(0), PyFloat(150), PyInt(0), PyInt(300),
     PyText("Infinity")}

\* Dicts in which one metric key differs from all the others.
Payloads ==
    {[k \in ProviderKeys |->
        IF k = "sector" THEN sec
        ELSE IF k = "longName" THEN ln
        ELSE IF k = k1 THEN v1 ELSE b] :
        k1 \in MetricKeys, v1 \in RawValues, b \in RawValues,
        sec \in {Absent, PyText(""), PyText("Technology")},
        ln \in {Absent, PyText("Apple Inc.")}}

InitFetch ==
    /\ pc = "call fetch_info"
    /\ ticker_input = <<"AAPL">>
    /\ info_raw \in {Response("raises", "raises", EmptyDict)}
            \cup {Response("ok", "raises", EmptyDict)}
            \cup {Response("ok", "ok", d) : d \in Payloads}
    /\ info = <<>>
    /\ error = "" /\ multi_tickers = <<>> /\ compare_sector = FALSE
    /\ trading_mode = "" /\ aggressive = FALSE /\ score = -1 /\ verdict = <<>>
    /\ tickers_list = <<>> /\ pos = 0 /\ data = <<>> /\ df_multi = <<>> /\ view = ""
    /\ val = None /\ key = "" /\ sector = NoneSector /\ ret = <<>>

FetchInfo ==
    /\ pc = "call fetch_info"
    /\ info_raw.ctor = "ok"
    /\ info' = fetch_info(ticker_input, info_raw)
    /\ pc' = "fetch_info returned"
    /\ UNCHANGED <<error, sidebar, info_raw, score, verdict, tab5, call>>

\* yf.Ticker(ticker) is outside every try of fetch_info: its exception leaves.
FetchInfoRaises ==
    /\ pc = "call fetch_info"
    /\ info_raw.ctor = "raises"
    /\ pc' = "fetch_info raised"
    /\ error' = "fetch_info"
    /\ UNCHANGED <<sidebar, info_raw, info, score, verdict, tab5, call>>

SpecFetch == InitFetch /\ [][FetchInfo \/ FetchInfoRaises]_vars

-----------------------------------------------------------------------------
(* The script: sidebar inputs, main, tabs 1 to 5 *)

\* A text field is the sequence of its tokens: a blank " " or a ticker symbol.
RECURSIVE LStrip(_)
LStrip(f) == IF f # <<>> /\ Head(f) = " " THEN LStrip(Tail(f)) ELSE f

RECURSIVE RStrip(_)
RStrip(f) ==
    IF f # <<>> /\ f[Len(f)] = " " THEN RStrip(SubSeq(f, 1, Len(f) - 1)) ELSE f

\* t.strip()
Strip(f) == RStrip(LStrip(f))

NonEmpty(t) == t # <<>>

\* [t.strip() for t in multi_tickers.split(",") if t.strip()]
ParseBasket(fields) ==
    SelectSeq([j \in 1..Len(fields) |-> Strip(fields[j])], NonEmpty)

Dict(sec, ln, pe, ps, eps, rg, pm, cr, cash, debt, price) ==
    [k \in ProviderKeys |->
        CASE k = "sector" -> sec
          [] k = "longName" -> ln
          [] k = "trailingPE" -> pe
          [] k = "priceToSalesTrailing12Months" -> ps
          [] k = "trailingEps" -> eps
          [] k = "revenueGrowth" -> rg
          [] k = "profitMargins" -> pm
          [] k = "currentRatio" -> cr
          [] k = "totalCash" -> cash
          [] k = "totalDebt" -> debt
          [] k = "currentPrice" -> price
          [] OTHER -> Absent]

\* The market-data provider of the runs explored: three listed companies, a
\* symbol for which yf.Ticker raises, two symbols with partial records, and
\* t.info raising for every other symbol.
Provider(t) ==
    CASE t = <<"AAPL">> ->
            Response("ok", "ok",
                Dict(PyText("Technology"), PyText("Apple Inc."), PyFloat(2850),
                     PyFloat(750), PyFloat(640), PyFloat(5), PyFloat(8), PyFloat(150),
                     PyInt(6000), PyInt(10000), PyFloat(19000)))
      [] t = <<"MSFT">> ->
            Response("ok", "ok",
                Dict(PyText("Technology"), PyText("Microsoft"), PyFloat(3500),
                     PyFloat(1250), PyFloat(1100), PyFloat(15), PyFloat(35), PyFloat(130),
                     PyInt(8000), PyInt(6000), PyFloat(41000)))
      [] t = <<"GOOGL">> ->
            Response("ok", "ok",
                Dict(PyText("Communication Services"), PyText("Alphabet"),
                     PyFloat(2400), PyFloat(600), PyFloat(580), PyFloat(12), PyFloat(24),
                     PyFloat(210), PyInt(11000), PyInt(3000), PyFloat(14000)))
      [] t = <<"NEWCO">> ->
            Response("ok", "ok",
                Dict(Absent, Absent, Absent, PyFloat(0), NaN, None, Absent, Absent,
                     PyInt(5000), Absent, PyFloat(1200)))
      [] t = <<"XEPS">> ->
            Response("ok", "ok",
                Dict(PyText("Industrial"), Absent, Absent, Absent, PyText("Infinity"),
                     Absent, Absent, Absent, Absent, Absent, Absent))
      [] t = <<"BADTICKER">> -> Response("raises", "raises", EmptyDict)
      [] OTHER -> Response("ok", "raises", EmptyDict)

PrimaryInputs == {<<>>, <<"AAPL">>, <<"NEWCO">>, <<"XEPS">>, <<"BADTICKER">>, <<"DELISTED">>}

BasketFields ==
    {<<>>, <<" ">>, <<"MSFT">>, <<" ", "GOOGL", " ">>, <<"BADTICKER">>, <<"DELISTED">>}

\* "".split(",") is [""]: the basket text has at least one field.
Baskets == UNION {[1..n -> BasketFields] : n \in 1..MaxFields}

SelectModes == {"Équilibré", "Long terme / Value", "Court terme / Spéculatif"}

Init ==
    /\ pc = "main"
    /\ error = ""
    /\ ticker_input \in PrimaryInputs
    /\ multi_tickers \in Baskets
    /\ compare_sector \in BOOLEAN
    /\ trading_mode \in SelectModes
    /\ aggressive \in BOOLEAN
    /\ info_raw = <<>> /\ info = <<>>
    /\ score = -1 /\ verdict = <<>>
    /\ tickers_list = <<>> /\ pos = 0 /\ data = <<>> /\ df_multi = <<>> /\ view = ""
    /\ val = None /\ key = "" /\ sector = NoneSector /\ ret = <<>>

\* Lines 152-154: an empty primary ticker shows a hint and stops the script.
MainStop ==
    /\ pc = "main"
    /\ ticker_input = <<>>
    /\ view' = "Entrez un ticker dans la sidebar"
    /\ pc' = "stopped"
    /\ UNCHANGED <<error, sidebar, info_raw, info, score, verdict,
                   tickers_list, pos, data, df_multi, call>>

\* Lines 156-157.  fetch_info is memoised per ticker (st.cache_data); the
\* provider here answers a ticker the same way every time, so the cache
\* returns what a new call would.
MainFetch ==
    /\ pc = "main"
    /\ ticker_input # <<>>
    /\ LET resp == Provider(ticker_input)
       IN  /\ info_raw' = resp
           /\ IF resp.ctor = "raises"
              THEN /\ pc' = "crashed"
                   /\ error' = "fetch_info"
                   /\ info' = info
              ELSE /\ pc' = "tabs"
                   /\ error' = error
                   /\ info' = fetch_info(ticker_input, resp)
    /\ UNCHANGED <<sidebar, score, verdict, tab5, call>>

\* Tab 2 formats P/E, P/S, P/B, growth, the margins and the current ratio, and
\* divides totalDebt by totalCash when totalCash is truthy (line 193).
Tab2Raises(i) ==
    \/ \E f \in {"trailingPE", "priceToSales", "priceToBook", "revenueGrowth",
                 "profitMargins", "operatingMargins", "currentRatio"} :
            i[f].k = "str"
    \/ Truthy(i.totalCash) /\ ~(IsNum(i.totalCash) /\ IsNum(i.totalDebt))

\* Tabs 1 to 3 (lines 163-218): rendering only; an exception ends the script.
\* Tab 3 runs only with a price history, which is not modelled.
RenderTabs ==
    /\ pc = "tabs"
    /\ IF Tab2Raises(info)
       THEN pc' = "crashed" /\ error' = "tab2"
       ELSE pc' = "tab4" /\ error' = error
    /\ UNCHANGED <<sidebar, info_raw, info, score, verdict, tab5, call>>

\* Tab 4 (lines 221-223): compute_score on the primary snapshot, whatever it
\* holds.  "eps and eps>0" raises TypeError for a non-empty str.
Tab4 ==
    /\ pc = "tab4"
    /\ IF info.trailingEPS.k = "str" /\ Truthy(info.trailingEPS)
       THEN /\ pc' = "crashed" /\ error' = "compute_score"
            /\ UNCHANGED <<score, verdict>>
       ELSE /\ score' = compute_score(info, aggressive, trading_mode)[1]
            /\ verdict' = compute_score(info, aggressive, trading_mode)[2]
            /\ pc' = "tab5" /\ error' = error
    /\ UNCHANGED <<sidebar, info_raw, info, tab5, call>>

\* Lines 237-238.
Tab5Parse ==
    /\ pc = "tab5"
    /\ tickers_list' = ParseBasket(multi_tickers)
    /\ data' = <<>>
    /\ pos' = 1
    /\ pc' = "tab5 loop"
    /\ UNCHANGED <<error, sidebar, info_raw, info, score, verdict, df_multi, view, call>>

Row(i) ==
    [Ticker |-> i.ticker, PE |-> i.trailingPE, Sector |-> i.sector, Price |-> i.price]

\* One iteration of lines 239-249: the except clause catches only what leaves
\* fetch_info, which is the exception of yf.Ticker(t).
Tab5Fetch ==
    /\ pc = "tab5 loop"
    /\ pos <= Len(tickers_list)
    /\ LET t == tickers_list[pos]
           resp == Provider(t)
       IN  data' = IF resp.ctor = "raises" THEN data
                   ELSE Append(data, Row(fetch_info(t, resp)))
    /\ pos' = pos + 1
    /\ UNCHANGED <<pc, error, sidebar, info_raw, info, score, verdict,
                   tickers_list, df_multi, view, call>>

\* Lines 250-253: pd.DataFrame(data) and the optional filter.  A DataFrame
\* built from no row has no column, and df_multi['Sector'] raises KeyError.
Tab5Filter(rows, filter, ref) ==
    LET SameSector(r) == r.Sector = ref
    IN  IF filter /\ rows = <<>> THEN [raised |-> TRUE, df |-> <<>>]
        ELSE [raised |-> FALSE,
              df |-> IF filter THEN SelectSeq(rows, SameSector) ELSE rows]

\* Lines 250-267.  The charts of a non-empty table are rendering.
Tab5Table ==
    /\ pc = "tab5 loop"
    /\ pos > Len(tickers_list)
    /\ LET r == Tab5Filter(data, compare_sector, info.sector)
       IN  IF r.raised
           THEN /\ pc' = "crashed" /\ error' = "KeyError: 'Sector'"
                /\ UNCHANGED <<df_multi, view>>
           ELSE /\ df_multi' = r.df
                /\ view' = IF r.df = <<>>
                           THEN "Pas assez de données pour le comparatif multi-tickers."
                           ELSE "charts"
                /\ pc' = "done" /\ error' = error
    /\ UNCHANGED <<sidebar, info_raw, info, score, verdict, tickers_list, pos, data, call>>

Next ==
    \/ MainStop
    \/ MainFetch
    \/ RenderTabs
    \/ Tab4
    \/ Tab5Parse
    \/ Tab5Fetch
    \/ Tab5Table

Spec == Init /\ [][Next]_vars

-----------------------------------------------------------------------------
(* Claims about interpret, under SpecInterp *)

\* The threshold triple the claim names for a sector and a key.
ClaimedTriple(s, m) ==
    IF s \in {"Biotechnology", "Healthcare", "Industrial", "Technology",
              "Financial Services"}
    THEN SECTOR_SCALES[s][m] ELSE DEFAULT_SCALES[m]

\* C4: for the keys PE and P/S and a value that is not missing, the tier is
\* Good iff value < mid, Bad iff value > high and Neutral otherwise, with
\* (low, mid, high) taken from the sector's row when the sector is listed and
\* from the default row otherwise (sector None included).
C4_CostTierByMidAndHigh ==
    (pc = "interpret returned" /\ key \in {"PE", "P/S"} /\ val # None) =>
        LET t == ClaimedTriple(sector, key)
        IN  /\ ret[2] \in {"green", "yellow", "red"}
            /\ (ret[2] = "green") <=> PyLt(val, t[2])
            /\ (ret[2] = "red") <=> PyGt(val, t[3])
            /\ (ret[2] = "yellow") <=> (~PyLt(val, t[2]) /\ ~PyGt(val, t[3]))

\* A P/E equal to the Technology mid threshold (30) has been classified Neutral.
C4_Witness ==
    /\ pc = "interpret returned" /\ key = "PE" /\ sector = "Technology"
    /\ val = PyFloat(3000) /\ ret[2] = "yellow"

\* C5: for the key Profit Margin and a value that is not missing, the tier is
\* Good iff value > 0.10, Bad iff value < 0 and Neutral otherwise, whatever the
\* sector; so the growth and margins colours of compute_score are the same for
\* every sector of the snapshot.
C5_MarginTierFixedThresholds ==
    (pc = "interpret returned" /\ key = "Profit Margin" /\ val # None) =>
        /\ ret[2] \in {"green", "yellow", "red"}
        /\ (ret[2] = "green") <=> PyGt(val, 10)
        /\ (ret[2] = "red") <=> PyLt(val, 0)
        /\ (ret[2] = "yellow") <=> (~PyGt(val, 10) /\ ~PyLt(val, 0))
        /\ \A s \in Sectors :
            /\ interpret(val, key, s)[2] = ret[2]
            /\ GrowthColor(Snapshot(s, None, None, None, val, None, None)) = ret[2]
            /\ MarginsColor(Snapshot(s, None, None, None, None, val, None)) = ret[2]

\* A margin of exactly 0.10 has been classified Neutral for Biotechnology, whose
\* table row has 0.10 as its high threshold and 0.05 as its mid threshold.
C5_Witness ==
    /\ pc = "interpret returned" /\ key = "Profit Margin"
    /\ sector = "Biotechnology" /\ val = PyFloat(10) /\ ret[2] = "yellow"

\* C6: for the missing sentinel, interpret returns ("N/A", gray, "Donnée
\* indisponible") for every key, recognised or not, and every sector.
C6_MissingIsUnavailable ==
    (pc = "interpret returned" /\ val = None) =>
        ret = <<NA, "gray", "Donnée indisponible">>

\* The sentinel has been interpreted under a key interpret does not know and a
\* sector the table does not list.
C6_Witness ==
    /\ pc = "interpret returned" /\ val = None /\ key = "P/B"
    /\ sector = "Unknown" /\ ret[1] = NA

-----------------------------------------------------------------------------
(* Claims about compute_score, under SpecScore *)

VerdictOfScore(tenths) ==
    IF tenths >= 70 THEN "BUY" ELSE IF tenths >= 45 THEN "WATCH" ELSE "AVOID"

\* C1: the verdict agrees with the returned (rounded) score: BUY when it is
\* >= 7.0, WATCH when it is >= 4.5 and < 7.0, AVOID when it is < 4.5.
C1_VerdictAgreesWithReturnedScore ==
    (pc = "compute_score returned") => verdict[1] = VerdictOfScore(score)

Present(v) == v # None

\* The valuation tier as the claim chooses it: presence, not truthiness.
ClaimedValuationColor(i) ==
    IF Present(i.trailingEPS) /\ PyGt(i.trailingEPS, 0) /\ Present(i.trailingPE)
    THEN interpret(i.trailingPE, "PE", i.sector)[2]
    ELSE IF Present(i.priceToSales)
    THEN interpret(i.priceToSales, "P/S", i.sector)[2]
    ELSE "yellow"

\* C2: the valuation tier is interpret(P/E) when EPS is present and > 0 and P/E
\* is present, else interpret(P/S) when P/S is present, else Neutral; a present
\* zero is never treated as missing.
C2_ValuationByPresence ==
    (pc = "compute_score returned") =>
        ValuationColor(info) = ClaimedValuationColor(info)

ClaimedWeights(mode) ==
    IF mode = "Long terme / Value" THEN <<4, 2, 3, 3>>
    ELSE IF mode = "Court terme / Spéculatif" THEN <<2, 4, 1, 1>>
    ELSE <<3, 3, 2, 2>>

\* 1.0 for Good, 0.6 for Neutral, 0.2 for Bad or Unknown, in tenths.
ClaimedMultiplier(c) ==
    CASE c = "green" -> 10 [] c = "yellow" -> 6 [] c \in {"red", "gray"} -> 2

\* round1(clamp_0_10(10 * sum(w*m) / sum(w) + bonus)), in tenths.
ClaimedScore(i, aggr, mode) ==
    LET w == ClaimedWeights(mode)
        W == w[1] + w[2] + w[3] + w[4]
        n == w[1] * ClaimedMultiplier(ValuationColor(i))
             + w[2] * ClaimedMultiplier(GrowthColor(i))
             + w[3] * ClaimedMultiplier(MarginsColor(i))
             + w[4] * ClaimedMultiplier(BalanceColor(i))
        \* the unclamped score is (n + bonus * W) / W, the bonus being 0 or 0.3
        x == 10 * n + (IF aggr THEN 3 * W ELSE 0)
        clamped == IF x > 100 * W THEN 100 * W ELSE IF x < 0 THEN 0 ELSE x
    IN  round1(clamped, 10 * W)

Min(a, b) == IF a < b THEN a ELSE b

\* C3: the returned score is round1(clamp(10 * sum(w*m)/sum(w) + bonus)) with
\* the weights (4,2,3,3), (2,4,1,1) or (3,3,2,2) of the mode; the aggressive
\* score is min(10, non-aggressive score + 0.3); every score lies in [0, 10].
C3_ScoreFormula ==
    (pc = "compute_score returned") =>
        /\ score = ClaimedScore(info, aggressive, trading_mode)
        /\ compute_score(info, TRUE, trading_mode)[1]
              = Min(100, compute_score(info, FALSE, trading_mode)[1] + 3)
        /\ score >= 0 /\ score <= 100

\* An aggressive call in a mode outside the two named ones, on a snapshot that
\* scores 10 without the bonus: the bonus has been clamped away.
C3_Witness ==
    /\ pc = "compute_score returned" /\ aggressive /\ trading_mode = "Autre"
    /\ compute_score(info, FALSE, trading_mode)[1] = 100 /\ score = 100

-----------------------------------------------------------------------------
(* Claim about fetch_info, under SpecFetch *)

\* C7: every metric field of the snapshot is the missing sentinel exactly when
\* the upstream value is absent, NaN or non-numeric (a string), and otherwise
\* is the upstream number unchanged.
C7_MissingIffAbsentNaNOrNonNumeric ==
    (pc = "fetch_info returned" /\ info_raw.info = "ok") =>
        \A f \in MetricFields :
            LET up == info_raw.dict[FieldKey[f]]
            IN  IF up.k \in {"absent", "None", "nan", "str"}
                THEN info[f] = None
                ELSE info[f] = up

-----------------------------------------------------------------------------
(* Claims about the script, under Spec *)

FetchSucceeds(t) == Provider(t).ctor = "ok" /\ Provider(t).info = "ok"

RowTickers(rows) == [j \in 1..Len(rows) |-> rows[j].Ticker]

\* C8: with the sector filter off, the table has exactly one row per basket
\* ticker whose provider fetch succeeds, in input order, and no row for a
\* ticker whose fetch fails.
C8_OneRowPerSuccessfulFetch ==
    (pc = "done" /\ ~compare_sector) =>
        RowTickers(df_multi) = SelectSeq(tickers_list, FetchSucceeds)

\* The primary ticker's fetch failed entirely: sector "Unknown", no price, no
\* metric.
PrimaryFetchFailed ==
    /\ pc \notin {"main", "stopped"}
    /\ info # <<>>
    /\ info.sector = "Unknown"
    /\ \A f \in MetricFields : info[f] = None

\* C9: when the primary ticker's fetch fails entirely, compute_score is never
\* invoked on the snapshot (no score, no verdict) and the script ends in an
\* explicit no-data state.
C9_NoScoreWithoutData ==
    PrimaryFetchFailed =>
        /\ score = -1 /\ verdict = <<>>
        /\ (pc \in {"done", "crashed"}) => view = "no data"

\* C10: with the sector filter on, the comparison step never raises, whatever
\* the basket text, and yields the collected rows of the primary's sector in
\* input order.
C10_FilterNeverRaises ==
    compare_sector =>
        /\ error # "KeyError: 'Sector'"
        /\ (pc = "done") =>
                LET SameSector(r) == r.Sector = info.sector
                IN  df_multi = SelectSeq(data, SameSector)

====
